---- MODULE Spec2Model ----
(***************************************************************************)
(* The video preview / export component (VideoEditor) of the storyboard    *)
(* tool, together with the parts of App that feed it.                      *)
(*                                                                         *)
(* One action is one run-to-completion step of the browser's event loop:   *)
(* a click handler, a timer callback, an image load/error event, a         *)
(* MediaRecorder event, or the continuation of handleExportVideo after an  *)
(* await.  The React state updates a step makes and the effect they        *)
(* re-run (the playback effect) are part of that step.                     *)
(***************************************************************************)
EXTENDS Integers, Sequences, FiniteSets, TLC

\* ---------------------------------------------------------------- bounds
MaxShots == 2        \* longest storyboard the analysis returns
MaxRuns == 2         \* export requests followed in one behaviour
MaxClock == 9        \* wall-clock steps followed (one step is TimeStep ms)
MaxChunks == 3       \* most blobs one recorder emits
MaxLen == 4          \* longest text handed to drawWrappedText, in code units
MaxBudget == 5       \* widest wrap budget (maxWidth)
MaxImgDim == 16      \* largest image width and height
MaxPlans == 2        \* storyboards planned in one behaviour

\* ------------------------------------------------------- program constants
DURATION_PER_SHOT == 4000

\* One wall-clock step of the model: a quarter of the preview hold.  Every
\* step is a multiple of the 50 ms tick, so a tick can fall on every step.
TimeStep == DURATION_PER_SHOT \div 4

AspectRatios == {"1:1", "9:16", "16:9", "21:9", "4:3"}

\* imageUrl: "none" is undefined/empty, "url" a generated image reference.
ImageRefs == {"none", "url"}
\* dialogue: "none" is undefined/empty, "text" a non-empty string, "bad" a
\* truthy value that is not a string (callAI returns JSON.parse of the
\* model's answer unvalidated, analyzeScript spreads it into the Shot).
Dialogues == {"none", "text", "bad"}

Shot == [imageUrl : ImageRefs, dialogue : Dialogues]

VARIABLES
    \* --- App
    shots,          \* App state `shots` (the storyboard prop of VideoEditor)
    queuePos,       \* processShotQueue: index i of its loop (0-based)
    currentRatio,   \* App state `currentRatio` (the aspectRatio prop)
    step,           \* App state `step`; "CRASHED" once a render has thrown
    isLoading,      \* App state `isLoading`: an analyzeScript call is awaited
    isGeneratingRef,
    queues,         \* every processShotQueue call so far: [len, i, state] and
                    \* what became of it (cancelled, late, starved)
    \* --- VideoEditor state
    currentIndex, isPlaying, progress, isExporting, exportProgress,
    intervalRef,    \* TRUE while a playback interval is registered
    startTimeRef,
    now,            \* Date.now(), in ms since the start of the behaviour
    \* --- handleExportVideo: the suspended async call and what it closed over
    pc,             \* "none" | "awaitImage" | "awaitHold"
    i,              \* loop variable i
    storyboard,     \* the storyboard array the handler closed over
    canvas,         \* [width, height] of the run's canvas
    rec,            \* index in recorders of the run's recorder, 0 if none
    ctx,            \* drawing state of the run's 2d context
    \* --- browser objects the handler created
    recorders,      \* every MediaRecorder created so far
    downloads,      \* every file saved by a.click()
    alerts,         \* number of alert() calls made by the catch block
    \* --- history
    runs,           \* per export request: how it went
    frames,         \* what the current run has drawn on its canvas, per shot
    loads,          \* the current run's image load outcomes, per shot
    log,            \* the current run's composite / hold / stop events
    startShots,     \* App's shots when the current run was requested
    startRatio,     \* App's currentRatio when the current run was requested
    active,         \* the moment the shown shot's hold counts from: when
                    \* it was last shown, jumped to or resumed, less the
                    \* time it had played before a resume
    \* --- the pure helpers, applied to inputs of their own
    calc            \* the input and the progress of one such application

queueVars == <<isLoading, isGeneratingRef, queues>>
appVars == <<shots, queuePos, currentRatio, step, queueVars>>
playVars == <<currentIndex, isPlaying, progress, intervalRef, startTimeRef,
              active>>
runVars == <<pc, i, storyboard, canvas, rec, ctx>>
histVars == <<runs, frames, loads, log, startShots, startRatio>>
vars == <<shots, queuePos, currentRatio, step, isLoading, isGeneratingRef,
          queues, currentIndex, isPlaying,
          progress, isExporting, exportProgress, intervalRef, startTimeRef,
          now, pc, i, storyboard, canvas, rec, ctx, recorders, downloads,
          alerts, runs, frames, loads, log, startShots, startRatio, active,
          calc>>

\* ----------------------------------------------------------------- helpers
SeqsUpTo(S, n) == UNION {[1..k -> S] : k \in 0..n}

Last(s) == s[Len(s)]

\* Math.round for a non-negative quotient a/b.
RoundDiv(a, b) == (2 * a + b) \div (2 * b)

\* ------------------------------------------------------------- App (part)
\* handleConfirmPreProduction: every shot starts with imageUrl undefined.
InitialShots ==
    {s \in SeqsUpTo(Shot, MaxShots) : \A k \in 1..Len(s) : s[k].imageUrl = "none"}

\* A fresh 2d context: the defaults of CanvasRenderingContext2D.
FreshCtx ==
    [font |-> "10px sans-serif", textAlign |-> "start",
     textBaseline |-> "alphabetic", fillStyle |-> "#000000"]

\* The application on the given page with the given shots, no analysis
\* awaited, and VideoEditor not mounted.
AppAt(page, initialShots) ==
    /\ shots = initialShots
    /\ queuePos = 0
    /\ currentRatio = "16:9"
    /\ step = page
    /\ isLoading = FALSE
    /\ isGeneratingRef = FALSE
    /\ queues = <<>>
    /\ currentIndex = 0
    /\ isPlaying = FALSE
    /\ progress = 0
    /\ isExporting = FALSE
    /\ exportProgress = 0
    /\ intervalRef = FALSE
    /\ startTimeRef = 0
    /\ active = 0
    /\ now = 0
    /\ pc = "none"
    /\ i = 0
    /\ storyboard = <<>>
    /\ canvas = [width |-> 0, height |-> 0]
    /\ rec = 0
    /\ recorders = <<>>
    /\ downloads = <<>>
    /\ alerts = 0
    /\ runs = <<>>
    /\ frames = <<>>
    /\ loads = <<>>
    /\ log = <<>>
    /\ startShots = <<>>
    /\ startRatio = "16:9"
    /\ ctx = FreshCtx

\* The application on the storyboard page, before the preview is opened.
AppInit(initialShots) == AppAt("STORYBOARD", initialShots)

Init ==
    /\ \E s \in InitialShots : AppInit(s)
    /\ calc = [op |-> "none"]

\* The VIDEO_PREVIEW button of the storyboard header mounts VideoEditor.
\* Its first render reads currentShot = storyboard[0] and dereferences it
\* (getDisplayImage(currentShot), currentShot.dialogue): with an empty
\* storyboard that throws, and an uncaught render error unmounts the tree.
\* Otherwise the state hooks take their initial values and the playback
\* effect registers the interval.
OpenPreview ==
    /\ step = "STORYBOARD"
    /\ IF Len(shots) = 0
       THEN /\ step' = "CRASHED"
            /\ UNCHANGED <<playVars, isExporting, exportProgress>>
       ELSE /\ step' = "VIDEO_PREVIEW"
            /\ currentIndex' = 0
            /\ isPlaying' = TRUE
            /\ progress' = 0
            /\ isExporting' = FALSE
            /\ exportProgress' = 0
            /\ intervalRef' = TRUE
            /\ startTimeRef' = now
            /\ active' = now
    /\ UNCHANGED <<shots, queuePos, currentRatio, queueVars, now, calc, runVars, recorders,
                   downloads, alerts, histVars>>

\* The aspect-ratio select of the sidebar; the sidebar is not rendered in
\* VIDEO_PREVIEW.
SetRatio(r) ==
    /\ step = "STORYBOARD"
    /\ r # currentRatio
    /\ currentRatio' = r
    /\ UNCHANGED <<shots, queuePos, step, queueVars, playVars, isExporting,
                   exportProgress, now, calc, runVars, recorders, downloads, alerts,
                   histVars>>

\* One iteration of processShotQueue completing: generateShotImage resolved
\* (imageUrl is set on a fresh array of fresh shot objects) or rejected
\* (only flags change).  The queue keeps running while VideoEditor is shown.
QueueStep(ok) ==
    /\ step \in {"STORYBOARD", "VIDEO_PREVIEW"}
    /\ queuePos < Len(shots)
    /\ shots' = IF ok THEN [shots EXCEPT ![queuePos + 1].imageUrl = "url"]
                      ELSE shots
    /\ queuePos' = queuePos + 1
    /\ UNCHANGED <<currentRatio, step, queueVars, playVars, isExporting, exportProgress,
                   now, calc, runVars, recorders, downloads, alerts, histVars>>

\* --------------------------------------------------- App (shot queues)
\* Everything of VideoEditor and of the pure helpers.
editorState == <<playVars, isExporting, exportProgress, now, calc, runVars,
                 recorders, downloads, alerts, histVars>>

\* handleAnalyze, once its two analyses have resolved: the characters and
\* scenes are set and the pre-production page is shown.
HandleAnalyze ==
    /\ step = "IDLE"
    /\ ~isLoading
    /\ step' = "PRE_PRODUCTION"
    /\ UNCHANGED <<shots, queuePos, currentRatio, queueVars, editorState>>

\* handleConfirmPreProduction up to its await of analyzeScript.  The
\* confirm button is disabled while isLoading.
Confirm ==
    /\ step = "PRE_PRODUCTION"
    /\ ~isLoading
    /\ Len(queues) < MaxPlans
    /\ step' = "STORYBOARD"
    /\ isLoading' = TRUE
    /\ UNCHANGED <<shots, queuePos, currentRatio, isGeneratingRef, queues,
                   editorState>>

\* processShotQueue up to its first await: the flag is set and, when there
\* is a shot, generateShotImage is called for shot 0.
StartQueue(s) ==
    [len |-> Len(s), i |-> 0,
     state |-> IF Len(s) > 0 THEN "awaiting" ELSE "ended",
     cancelled |-> FALSE, late |-> 0, starved |-> FALSE]

\* analyzeScript resolved: setShots(initialShots), then processShotQueue.
\* Nothing looks at the page the user is on by now.  A mounted VideoEditor
\* re-renders with the new storyboard and throws when currentShot is
\* undefined.
PlanResolved(s) ==
    /\ isLoading
    /\ shots' = s
    /\ isLoading' = FALSE
    /\ queues' = Append(queues, StartQueue(s))
    /\ isGeneratingRef' = (Len(s) > 0)
    /\ step' = IF step = "VIDEO_PREVIEW" /\ currentIndex >= Len(s)
               THEN "CRASHED" ELSE step
    /\ UNCHANGED <<queuePos, currentRatio, editorState>>

\* analyzeScript rejected: the catch block shows the error.
PlanFailed ==
    /\ isLoading
    /\ isLoading' = FALSE
    /\ UNCHANGED <<shots, queuePos, currentRatio, step, isGeneratingRef,
                   queues, editorState>>

\* if (!isGeneratingRef.current) break.
ShouldBreak == ~isGeneratingRef

\* generateShotImage settled for queue q: the shot is updated where its id
\* is still among the shots (ids are unique to a plan), then the loop goes
\* on: it ends after the last shot or on the break, and clears the flag;
\* or it calls generateShotImage for the next shot.
QueueResume(q, ok) ==
    /\ q \in 1..Len(queues)
    /\ queues[q].state = "awaiting"
    /\ LET Q == queues[q]
           k == Q.i + 1
       IN /\ shots' = IF ok /\ q = Len(queues) /\ k <= Len(shots)
                       THEN [shots EXCEPT ![k].imageUrl = "url"]
                       ELSE shots
          /\ IF k < Q.len /\ ~ShouldBreak
             THEN /\ queues' = [queues EXCEPT
                         ![q].i = k,
                         ![q].late = IF Q.cancelled THEN @ + 1 ELSE @]
                  /\ UNCHANGED isGeneratingRef
             ELSE /\ queues' = [queues EXCEPT
                         ![q].i = k,
                         ![q].state = "ended",
                         ![q].starved = (k < Q.len /\ ~Q.cancelled)]
                  /\ isGeneratingRef' = FALSE
    /\ UNCHANGED <<queuePos, currentRatio, step, isLoading, editorState>>

\* The queues a back or a reset means to stop: those still running.
Cancel(qs) ==
    [q \in 1..Len(qs) |->
        IF qs[q].state = "awaiting" THEN [qs[q] EXCEPT !.cancelled = TRUE]
        ELSE qs[q]]

\* handleBack, the back button of the header.
HandleBack ==
    /\ step \in {"STORYBOARD", "PRE_PRODUCTION"}
    /\ IF step = "STORYBOARD"
       THEN /\ step' = "PRE_PRODUCTION"
            /\ isGeneratingRef' = FALSE
            /\ queues' = Cancel(queues)
       ELSE /\ step' = "IDLE"
            /\ UNCHANGED <<isGeneratingRef, queues>>
    /\ UNCHANGED <<shots, queuePos, currentRatio, isLoading, editorState>>

\* handleGlobalReset, the reset button of the header.
HandleGlobalReset ==
    /\ step \in {"STORYBOARD", "PRE_PRODUCTION"}
    /\ isGeneratingRef' = FALSE
    /\ step' = "IDLE"
    /\ shots' = <<>>
    /\ queues' = Cancel(queues)
    /\ UNCHANGED <<queuePos, currentRatio, isLoading, editorState>>

\* ------------------------------------------------------------ playback
\* An effect that starts every interval from the present moment.
EffectStart_Now(prog) == now

\* startTimeRef as the playback effect sets it when it (re)starts the
\* interval: Date.now() - (progress / 100) * DURATION_PER_SHOT.
EffectStart(prog) == now - (prog * DURATION_PER_SHOT) \div 100

AdvanceTime ==
    /\ now < MaxClock * TimeStep
    /\ now' = now + TimeStep
    /\ UNCHANGED <<calc, appVars, playVars, isExporting, exportProgress, runVars,
                   recorders, downloads, alerts, histVars>>

\* const elapsed = Date.now() - startTimeRef.current.
Elapsed == now - startTimeRef

\* A clock that runs at twice the speed.
NewProgress_Double(elapsed) == (elapsed * 200) \div DURATION_PER_SHOT

\* const newProgress = (elapsed / DURATION_PER_SHOT) * 100.
NewProgress(elapsed) == (elapsed * 100) \div DURATION_PER_SHOT

\* A timeline that starts over by itself at its end.
EndOfTimeline_Loop ==
    /\ currentIndex' = 0
    /\ progress' = 0
    /\ startTimeRef' = now
    /\ active' = now
    /\ UNCHANGED <<isPlaying, intervalRef>>

\* End of Timeline: setIsPlaying(false), setProgress(100), clearInterval.
EndOfTimeline ==
    /\ isPlaying' = FALSE
    /\ progress' = 100
    /\ intervalRef' = FALSE
    /\ UNCHANGED <<currentIndex, startTimeRef, active>>

\* The interval callback.
Tick ==
    /\ step = "VIDEO_PREVIEW"
    /\ intervalRef
    /\ LET newProgress == NewProgress(Elapsed)
       IN IF newProgress >= 100
          THEN IF currentIndex < Len(shots) - 1
               THEN /\ currentIndex' = currentIndex + 1
                    /\ progress' = 0
                    /\ startTimeRef' = now
                    /\ active' = now
                    /\ UNCHANGED <<isPlaying, intervalRef>>
               ELSE EndOfTimeline
          ELSE /\ progress' = newProgress
               /\ UNCHANGED <<currentIndex, isPlaying, intervalRef,
                              startTimeRef, active>>
    /\ UNCHANGED <<appVars, isExporting, exportProgress, now, calc, runVars,
                   recorders, downloads, alerts, histVars>>

\* A jump that leaves the start timestamp alone.
handleJump_NoStamp(index) ==
    IF isExporting
    THEN UNCHANGED playVars
    ELSE /\ currentIndex' = index
         /\ progress' = 0
         /\ active' = now
         /\ UNCHANGED <<isPlaying, intervalRef, startTimeRef>>

\* handleJump; when the index changes while playing the effect re-runs
\* with progress 0 and sets startTimeRef to Date.now() as well.
handleJump(index) ==
    IF isExporting
    THEN UNCHANGED playVars
    ELSE /\ currentIndex' = index
         /\ progress' = 0
         /\ startTimeRef' = now
         /\ active' = now
         /\ UNCHANGED <<isPlaying, intervalRef>>

HandleJump(index) ==
    /\ step = "VIDEO_PREVIEW"
    /\ index \in 0..(Len(shots) - 1)
    /\ handleJump(index)
    /\ UNCHANGED <<appVars, isExporting, exportProgress, now, calc, runVars,
                   recorders, downloads, alerts, histVars>>

HandleNext ==
    /\ step = "VIDEO_PREVIEW"
    /\ IF currentIndex < Len(shots) - 1
       THEN handleJump(currentIndex + 1)
       ELSE UNCHANGED playVars
    /\ UNCHANGED <<appVars, isExporting, exportProgress, now, calc, runVars,
                   recorders, downloads, alerts, histVars>>

HandlePrev ==
    /\ step = "VIDEO_PREVIEW"
    /\ IF currentIndex > 0
       THEN handleJump(currentIndex - 1)
       ELSE UNCHANGED playVars
    /\ UNCHANGED <<appVars, isExporting, exportProgress, now, calc, runVars,
                   recorders, downloads, alerts, histVars>>

\* A toggle without the isExporting guard.
togglePlay_Unguarded ==
    /\ currentIndex' = currentIndex
    /\ progress' = progress
    /\ isPlaying' = ~isPlaying
    /\ intervalRef' = (~isPlaying /\ ~isExporting)
    /\ startTimeRef' = IF ~isPlaying /\ ~isExporting THEN EffectStart(progress)
                        ELSE startTimeRef
    /\ active' = IF ~isPlaying /\ ~isExporting
                 THEN now - (progress * DURATION_PER_SHOT) \div 100
                 ELSE active

\* A toggle that resumes at the end of the timeline as anywhere else.
togglePlay_NoRestart ==
    IF isExporting
    THEN UNCHANGED playVars
    ELSE /\ UNCHANGED <<currentIndex, progress>>
         /\ isPlaying' = ~isPlaying
         /\ intervalRef' = ~isPlaying
         /\ startTimeRef' = IF ~isPlaying THEN EffectStart(progress)
                             ELSE startTimeRef
         /\ active' = IF isPlaying THEN active
                      ELSE now - (progress * DURATION_PER_SHOT) \div 100

togglePlay ==
    IF isExporting
    THEN UNCHANGED playVars
    ELSE LET restart == ~isPlaying /\ progress >= 100
                          /\ currentIndex = Len(shots) - 1
             prog == IF restart THEN 0 ELSE progress
         IN /\ currentIndex' = IF restart THEN 0 ELSE currentIndex
            /\ progress' = prog
            /\ isPlaying' = ~isPlaying
            \* the effect re-runs on the isPlaying change
            /\ intervalRef' = ~isPlaying
            /\ startTimeRef' = IF ~isPlaying THEN EffectStart(prog)
                                ELSE startTimeRef
            /\ active' = IF isPlaying THEN active
                         ELSE now - (prog * DURATION_PER_SHOT) \div 100

TogglePlay ==
    /\ step = "VIDEO_PREVIEW"
    /\ togglePlay
    /\ UNCHANGED <<appVars, isExporting, exportProgress, now, calc, runVars,
                   recorders, downloads, alerts, histVars>>

\* ---------------------------------------------------- handleExportVideo
\* A. Setup Canvas: the pixel size per aspect ratio.
CanvasSize(ratio) ==
    IF ratio = "9:16" THEN [width |-> 1080, height |-> 1920]
    ELSE IF ratio = "1:1" THEN [width |-> 1080, height |-> 1080]
    ELSE IF ratio = "21:9" THEN [width |-> 1920, height |-> 816]
    ELSE IF ratio = "4:3" THEN [width |-> 1440, height |-> 1080]
    ELSE [width |-> 1920, height |-> 1080]

\* A handler that read the application's current shots instead.
LoopShot_Live(k) == shots[k + 1]

\* const shot = storyboard[i], on the array the handler closed over.
LoopShot(k) == storyboard[k + 1]

\* The loop condition i < storyboard.length.
LoopLength == Len(storyboard)

\* img.src = shot.imageUrl || the placehold.co address.
ImageSrc(shot) == IF shot.imageUrl # "none" THEN shot.imageUrl ELSE "placehold.co"

\* A compositor that draws the image whether or not it decoded.
DrawImage_Unchecked(shot, loaded) == [kind |-> "cover", src |-> ImageSrc(shot)]

\* 2. Draw Image: black fill, then the image cover-fitted when
\* img.naturalWidth > 0 (the load event fired), else the local placeholder
\* (#333 fill and the "Missing Image" label).
DrawImage(shot, loaded) ==
    IF loaded THEN [kind |-> "cover", src |-> ImageSrc(shot)]
    ELSE [kind |-> "placeholder", src |-> "local"]

\* A subtitle pass that lays the strap under every shot.
DrawSubtitles_Always(shot) ==
    IF shot.dialogue = "bad" THEN [strap |-> TRUE, text |-> FALSE, threw |-> TRUE]
    ELSE [strap |-> TRUE, text |-> shot.dialogue = "text", threw |-> FALSE]

\* 3. Draw Subtitles: nothing when shot.dialogue is falsy; else the
\* gradient strap, then the text (shot.dialogue.split throws a TypeError
\* when the dialogue is not a string, after the strap was filled).
DrawSubtitles(shot) ==
    IF shot.dialogue = "none" THEN [strap |-> FALSE, text |-> FALSE, threw |-> FALSE]
    ELSE IF shot.dialogue = "text" THEN [strap |-> TRUE, text |-> TRUE, threw |-> FALSE]
    ELSE [strap |-> TRUE, text |-> FALSE, threw |-> TRUE]

\* The drawing state after step 2: fillStyle "black" for the background;
\* the placeholder branch then sets fillStyle, font and textAlign for its
\* label, and leaves textBaseline as it finds it.
CtxAfterImage(c, kind) ==
    IF kind = "placeholder"
    THEN [c EXCEPT !.fillStyle = "white", !.font = "bold 60px sans-serif",
                   !.textAlign = "center"]
    ELSE [c EXCEPT !.fillStyle = "black"]

\* The drawing state after step 3: untouched when shot.dialogue is falsy,
\* else the text configuration (set before the dialogue is split).
CtxAfterSubtitles(c, shot) ==
    IF shot.dialogue = "none" THEN c
    ELSE [font |-> "bold fontSize px sans-serif", textAlign |-> "center",
          textBaseline |-> "top", fillStyle |-> "white"]

\* Steps 2 and 3 of one iteration on a context in drawing state c: what is
\* painted, the drawing state left behind, and whether the step threw.
\* label is the drawing state the "Missing Image" label is filled with,
\* caption the one the subtitle lines are stroked and filled with.
Composite(c, shot, loaded) ==
    LET img == DrawImage(shot, loaded)
        sub == DrawSubtitles(shot)
        c1 == CtxAfterImage(c, img.kind)
        c2 == CtxAfterSubtitles(c1, shot)
    IN [frame |-> [kind |-> img.kind, src |-> img.src,
                   strap |-> sub.strap, text |-> sub.text,
                   label |-> IF img.kind = "placeholder" THEN <<c1>> ELSE <<>>,
                   caption |-> IF sub.text THEN <<c2>> ELSE <<>>],
        ctx |-> c2,
        threw |-> sub.threw]

\* A catch block that leaves isExporting set.
CatchExport_NoReset ==
    /\ isExporting' = TRUE
    /\ alerts' = alerts + 1
    /\ pc' = "none"

\* The catch block: setIsExporting(false) and the alert.  It has no access
\* to the recorder (declared inside the try block) and does not stop it.
CatchExport ==
    /\ isExporting' = FALSE
    /\ alerts' = alerts + 1
    /\ pc' = "none"

\* A loop that ends without calling recorder.stop().
StopRecorder_Forgotten(r) == UNCHANGED recorders

\* recorder.stop(): the state turns inactive at once; the user agent then
\* fires dataavailable with the gathered blob, and after it stop.
StopRecorder(r) ==
    recorders' = [recorders EXCEPT ![r].state = "inactive", ![r].queued = "data"]

\* A loop that steps over a shot.
NextIndex_Skip(k) == k + 2

\* The loop's i++.
NextIndex(k) == k + 1

\* A loop that does not report its progress.
BeginShot_NoProgress(k) ==
    /\ i' = k
    /\ UNCHANGED exportProgress
    /\ pc' = "awaitImage"

\* The head of one loop iteration, up to the await of the image.
BeginShot(k) ==
    /\ i' = k
    /\ exportProgress' = RoundDiv(k * 100, LoopLength')
    /\ pc' = "awaitImage"

\* An export that rewinds the preview.
PausePlayback_Rewind ==
    /\ isPlaying' = FALSE
    /\ intervalRef' = FALSE
    /\ currentIndex' = 0
    /\ progress' = 0
    /\ UNCHANGED <<startTimeRef, active>>

\* setIsPlaying(false) at the entry; the playback effect re-runs and
\* clears the interval.
PausePlayback ==
    /\ isPlaying' = FALSE
    /\ intervalRef' = FALSE
    /\ UNCHANGED <<currentIndex, progress, startTimeRef, active>>

\* The export button's handler up to its first await.  env is what the
\* browser answers: "ok", "noContext" (getContext returns null) or
\* "noRecorder" (the MediaRecorder constructor throws).
ExportStart(env) ==
    /\ step = "VIDEO_PREVIEW"
    /\ Len(runs) < MaxRuns
    /\ IF isExporting
       THEN UNCHANGED <<playVars, isExporting, exportProgress, runVars,
                        recorders, alerts, histVars>>
       ELSE /\ PausePlayback
            /\ storyboard' = shots
            /\ canvas' = CanvasSize(currentRatio)
            /\ startShots' = shots
            /\ startRatio' = currentRatio
            /\ frames' = <<>>
            /\ loads' = <<>>
            /\ IF env # "ok"
               THEN /\ CatchExport
                    /\ exportProgress' = 0
                    /\ runs' = Append(runs, "abortedSetup")
                    /\ log' = <<>>
                    /\ rec' = 0
                    /\ UNCHANGED <<i, recorders, ctx>>
               ELSE /\ isExporting' = TRUE
                    /\ rec' = Len(recorders) + 1
                    /\ ctx' = FreshCtx
                    /\ UNCHANGED alerts
                    /\ IF Len(shots) = 0
                       THEN /\ recorders' = Append(recorders,
                                   [state |-> "inactive", queued |-> "data",
                                    chunks |-> <<>>, emitted |-> <<>>,
                                    run |-> Len(runs) + 1])
                            /\ exportProgress' = 0
                            /\ pc' = "none"
                            /\ log' = <<[ev |-> "stop", shot |-> 0]>>
                            /\ runs' = Append(runs, "stopped")
                            /\ UNCHANGED i
                       ELSE /\ recorders' = Append(recorders,
                                   [state |-> "recording", queued |-> "none",
                                    chunks |-> <<>>, emitted |-> <<>>,
                                    run |-> Len(runs) + 1])
                            /\ BeginShot(0)
                            /\ log' = <<>>
                            /\ runs' = Append(runs, "running")
    /\ UNCHANGED <<appVars, now, calc, downloads>>

\* The image's load (ok) or error event: the await resumes, the frame is
\* composited and the hold timer is set; or the composite throws and the
\* catch block runs.
ImageSettled(ok) ==
    /\ pc = "awaitImage"
    /\ LET shot == LoopShot(i)
           sub == Composite(ctx, shot, ok)
       IN /\ frames' = Append(frames, sub.frame)
          /\ loads' = Append(loads, ok)
          /\ ctx' = sub.ctx
          /\ IF sub.threw
             THEN /\ CatchExport
                  /\ runs' = [runs EXCEPT ![Len(runs)] = "abortedLoop"]
                  /\ UNCHANGED log
             ELSE /\ pc' = "awaitHold"
                  /\ log' = Append(log, [ev |-> "composite", shot |-> i])
                  /\ UNCHANGED <<isExporting, alerts, runs>>
    /\ UNCHANGED <<appVars, playVars, exportProgress, now, calc, i, storyboard,
                   canvas, rec, recorders, downloads, startShots, startRatio>>

\* The hold timer fires: the next iteration begins, or the loop ends and
\* recorder.stop() is called.
HoldDone ==
    /\ pc = "awaitHold"
    /\ UNCHANGED <<storyboard, ctx>>
    /\ IF NextIndex(i) < LoopLength
       THEN /\ BeginShot(NextIndex(i))
            /\ log' = Append(log, [ev |-> "hold", shot |-> i])
            /\ UNCHANGED <<recorders, runs>>
       ELSE /\ StopRecorder(rec)
            /\ pc' = "none"
            /\ log' = log \o <<[ev |-> "hold", shot |-> i],
                                [ev |-> "stop", shot |-> 0]>>
            /\ runs' = [runs EXCEPT ![Len(runs)] = "stopped"]
            /\ UNCHANGED <<i, exportProgress>>
    /\ UNCHANGED <<appVars, playVars, isExporting, now, calc, canvas, rec,
                   downloads, alerts, frames, loads, startShots, startRatio>>

\* A data handler that puts the newest chunk first.
PushChunk_Front(chunks, data) ==
    IF data.size > 0 THEN <<data>> \o chunks ELSE chunks

\* The body of recorder.ondataavailable:
\* if (e.data.size > 0) chunks.push(e.data).
PushChunk(chunks, data) ==
    IF data.size > 0 THEN Append(chunks, data) ELSE chunks

\* The n-th blob recorder r hands to its data handler.
Blob(r, n, size) == [rid |-> r, n |-> n, size |-> size]

\* recorder.ondataavailable, fired by the user agent with a blob of the
\* given size after stop().  emitted keeps every blob the recorder fired.
OnDataAvailable(r, size) ==
    /\ r \in 1..Len(recorders)
    /\ recorders[r].queued = "data"
    /\ LET data == Blob(r, Len(recorders[r].emitted) + 1, size)
       IN recorders' = [recorders EXCEPT
              ![r].emitted = Append(@, data),
              ![r].queued = "stop",
              ![r].chunks = PushChunk(@, data)]
    /\ UNCHANGED <<appVars, playVars, isExporting, exportProgress, now, calc,
                   runVars, downloads, alerts, histVars>>

\* A user agent that hands the gathered data over in several blobs: one
\* more dataavailable before the last one.
EmitChunk(r, size) ==
    /\ r \in 1..Len(recorders)
    /\ recorders[r].queued = "data"
    /\ Len(recorders[r].emitted) < MaxChunks - 1
    /\ LET data == Blob(r, Len(recorders[r].emitted) + 1, size)
       IN recorders' = [recorders EXCEPT
              ![r].emitted = Append(@, data),
              ![r].chunks = PushChunk(@, data)]
    /\ UNCHANGED <<appVars, playVars, isExporting, exportProgress, now, calc,
                   runVars, downloads, alerts, histVars>>

\* recorder.onstop: the blob is assembled from chunks and saved, then
\* setIsExporting(false) and setExportProgress(0).
OnStop(r) ==
    /\ r \in 1..Len(recorders)
    /\ recorders[r].queued = "stop"
    /\ recorders' = [recorders EXCEPT ![r].queued = "none"]
    /\ downloads' = Append(downloads,
                           [run |-> recorders[r].run, blob |-> recorders[r].chunks])
    /\ isExporting' = FALSE
    /\ exportProgress' = 0
    /\ runs' = [runs EXCEPT ![recorders[r].run] = "finalized"]
    /\ UNCHANGED <<appVars, playVars, now, calc, runVars, alerts, frames, loads,
                   log, startShots, startRatio>>

\* -------------------------------------------------------- drawWrappedText
\* Everything but calc: the helpers below leave the component alone.
editorVars == <<appVars, playVars, isExporting, exportProgress, now, runVars,
                recorders, downloads, alerts, histVars>>

\* The UTF-16 code units text.split('') yields: "a" is a letter of the
\* basic plane, "H" and "L" are the high and the low surrogate of one
\* astral character (an emoji), which is two code units of the string.
Units == {"a", "H", "L"}

\* The dialogue is a non-empty string at the call (if (shot.dialogue)).
Texts == SeqsUpTo(Units, MaxLen) \ {<<>>}

Budgets == (0 - 1)..MaxBudget

\* ctx.measureText(s).width in a font where the letter is 1 wide, the
\* emoji (a surrogate pair) 3, and a surrogate on its own is painted as the
\* replacement glyph, 2 wide.
RECURSIVE MeasureText(_)
MeasureText(s) ==
    IF s = <<>> THEN 0
    ELSE IF Len(s) >= 2 /\ s[1] = "H" /\ s[2] = "L"
         THEN 3 + MeasureText(SubSeq(s, 3, Len(s)))
    ELSE IF s[1] = "a" THEN 1 + MeasureText(Tail(s))
    ELSE 2 + MeasureText(Tail(s))

\* const testLine = line + chars[n].
TestLine(line, ch) == Append(line, ch)

\* A wrapper that lets a line run one unit of width over the budget.
Overflows_Late(testLine, n, maxWidth) ==
    MeasureText(testLine) > maxWidth + 1 /\ n > 0

\* A wrapper that breaks a line which exactly fills the budget.
Overflows_Early(testLine, n, maxWidth) ==
    MeasureText(testLine) >= maxWidth /\ n > 0

\* A wrapper that breaks before the very first character too.
Overflows_NoFirstGuard(testLine, n, maxWidth) ==
    MeasureText(testLine) > maxWidth

\* if (metrics.width > maxWidth && n > 0).
Overflows(testLine, n, maxWidth) ==
    MeasureText(testLine) > maxWidth /\ n > 0

\* A wrapper that starts the new line empty.
BrokenLine_Empty(ch) == <<>>

\* line = chars[n], after the break.
BrokenLine(ch) == <<ch>>

\* The state at the top of drawWrappedText's loop.
WrapStart(text, maxWidth) ==
    [op |-> "wrap", text |-> text, maxWidth |-> maxWidth,
     n |-> 0, line |-> <<>>, lines |-> <<>>, done |-> FALSE]

\* One iteration of the loop over chars.
WrapStep ==
    /\ calc.op = "wrap"
    /\ ~calc.done
    /\ calc.n < Len(calc.text)
    /\ LET ch == calc.text[calc.n + 1]
           testLine == TestLine(calc.line, ch)
       IN IF Overflows(testLine, calc.n, calc.maxWidth)
          THEN calc' = [calc EXCEPT !.lines = Append(@, calc.line),
                                    !.line = BrokenLine(ch),
                                    !.n = @ + 1]
          ELSE calc' = [calc EXCEPT !.line = testLine, !.n = @ + 1]
    /\ UNCHANGED editorVars

\* The loop is over: lines.push(line), and the lines are drawn in order.
WrapFinish ==
    /\ calc.op = "wrap"
    /\ ~calc.done
    /\ calc.n = Len(calc.text)
    /\ calc' = [calc EXCEPT !.lines = Append(@, calc.line), !.done = TRUE]
    /\ UNCHANGED editorVars

\* ------------------------------------------------------ 3. Draw Subtitles
\* The heights of the export surfaces.
Heights == {CanvasSize(r).height : r \in AspectRatios}

\* const fontSize = Math.floor(height * 0.04).
FontSize(height) == (height * 4) \div 100

\* const lineHeight = fontSize * 1.35, in hundredths of a pixel.
LineHeight(fontSize) == 135 * fontSize

\* A block that keeps a tenth of the height free below it.
StartY_Tenth(height, lineCount, lineHeight) ==
    100 * height - 10 * height - lineCount * lineHeight

\* const totalTextH = lineCount * lineHeight;
\* const startY = height - (height * 0.08) - totalTextH,
\* in hundredths of a pixel.
StartY(height, lineCount, lineHeight) ==
    100 * height - 8 * height - lineCount * lineHeight

\* A count that breaks before the very first character too.
InlineOverflows_NoFirstGuard(testLine, n, maxWidth) ==
    MeasureText(testLine) > maxWidth

\* if (tempCtx.measureText(testLine).width > maxWidth && n > 0); tempCtx is
\* the context itself, with the font just set.
InlineOverflows(testLine, n, maxWidth) ==
    MeasureText(testLine) > maxWidth /\ n > 0

\* The state at the top of the counting loop, after the text configuration.
SubtitleStart(text, maxWidth, height) ==
    [op |-> "count", text |-> text, maxWidth |-> maxWidth, height |-> height,
     fontSize |-> FontSize(height), n |-> 0, line |-> <<>>, lineCount |-> 1]

\* One iteration of the counting loop.
CountStep ==
    /\ calc.op = "count"
    /\ calc.n < Len(calc.text)
    /\ LET ch == calc.text[calc.n + 1]
           testLine == calc.line \o <<ch>>
       IN IF InlineOverflows(testLine, calc.n, calc.maxWidth)
          THEN calc' = [calc EXCEPT !.line = <<ch>>, !.lineCount = @ + 1,
                                    !.n = @ + 1]
          ELSE calc' = [calc EXCEPT !.line = testLine, !.n = @ + 1]
    /\ UNCHANGED editorVars

\* The count is done: startY is computed and drawWrappedText is called
\* with the same text and budget.
LayOut ==
    /\ calc.op = "count"
    /\ calc.n = Len(calc.text)
    /\ LET lineHeight == LineHeight(calc.fontSize)
       IN calc' = WrapStart(calc.text, calc.maxWidth) @@
                  [height |-> calc.height, fontSize |-> calc.fontSize,
                   lineCount |-> calc.lineCount, lineHeight |-> lineHeight,
                   startY |-> StartY(calc.height, calc.lineCount, lineHeight)]
    /\ UNCHANGED editorVars

\* -------------------------------------------------------------- cover fit
ImageSizes == [width : 1..MaxImgDim, height : 1..MaxImgDim]

\* An image taller than the surface is wide, fitted as a wide one.
Wider_Contain(img, surface) ==
    img.width * surface.height < surface.width * img.height

\* if (imgRatio > canvasRatio), with imgRatio = img.width / img.height and
\* canvasRatio = width / height; all four are positive.
Wider(img, surface) ==
    img.width * surface.height > surface.width * img.height

\* The rectangle ctx.drawImage is given.  The code computes it in
\* fractions; here x, y, w and h are numerators over the denominator den.
CoverRect(img, surface) ==
    IF Wider(img, surface)
    THEN [den |-> 2 * img.height,
          h |-> 2 * img.height * surface.height,
          w |-> 2 * surface.height * img.width,
          x |-> surface.width * img.height - surface.height * img.width,
          y |-> 0]
    ELSE [den |-> 2 * img.width,
          w |-> 2 * img.width * surface.width,
          h |-> 2 * surface.width * img.height,
          x |-> 0,
          y |-> surface.height * img.width - surface.width * img.height]

\* The image has loaded: the rectangle is computed and the image drawn.
CoverFit ==
    /\ calc.op = "cover"
    /\ calc.rect = <<>>
    /\ calc' = [calc EXCEPT !.rect = <<CoverRect(calc.img, calc.surface)>>]
    /\ UNCHANGED editorVars

\* ------------------------------------------------------- specifications
\* One mount of VideoEditor is followed: the ratio is chosen on the
\* storyboard page, the preview is opened, and exports are requested.
ExportActions ==
    \/ \E env \in {"ok", "noContext", "noRecorder"} : ExportStart(env)
    \/ \E ok \in BOOLEAN : ImageSettled(ok)
    \/ HoldDone
    \/ \E r \in 1..MaxRuns, size \in {0, 1} : OnDataAvailable(r, size)
    \/ \E r \in 1..MaxRuns : OnStop(r)

Next ==
    \/ OpenPreview
    \/ \E r \in AspectRatios : SetRatio(r)
    \/ \E ok \in BOOLEAN : QueueStep(ok)
    \/ ExportActions

\* The export pipeline with the application around it.  The wall clock
\* stands still: handleExportVideo does not read it.
Spec == Init /\ [][Next]_vars

\* The playback clock with the export pipeline: the wall clock advances,
\* the interval ticks and the user works the controls.  The application
\* does not touch the shots here (playback reads only their number).
ClockNext ==
    \/ OpenPreview
    \/ ExportActions
    \/ AdvanceTime
    \/ Tick
    \/ TogglePlay
    \/ \E k \in 0..(MaxShots - 1) : HandleJump(k)
    \/ HandleNext
    \/ HandlePrev

\* A shot with a subtitle and one without go the same way through the
\* export; the clock specification starts from shots without one, or with
\* one that cannot be drawn.
ClockInit ==
    /\ Init
    /\ \A k \in 1..Len(shots) : shots[k].dialogue \in {"none", "bad"}

ClockSpec == ClockInit /\ [][ClockNext]_vars

\* Every image load fires load or error, every hold timer fires, and the
\* user agent delivers the events recorder.stop() queued.
Fairness ==
    /\ WF_vars(\E ok \in BOOLEAN : ImageSettled(ok))
    /\ WF_vars(HoldDone)
    /\ WF_vars(\E r \in 1..MaxRuns, size \in {0, 1} : OnDataAvailable(r, size))
    /\ WF_vars(\E r \in 1..MaxRuns : OnStop(r))

\* The export pipeline alone (the canvas size plays no part in its control
\* flow, so the ratio keeps its default), with the fairness above.
FairNext ==
    \/ OpenPreview
    \/ \E ok \in BOOLEAN : QueueStep(ok)
    \/ ExportActions

FairSpec == Init /\ [][FairNext]_vars /\ Fairness

\* The export pipeline under a user agent that may split the recording
\* into several blobs.
EncoderNext ==
    \/ OpenPreview
    \/ ExportActions
    \/ \E r \in 1..MaxRuns, size \in {0, 1} : EmitChunk(r, size)

EncoderSpec == Init /\ [][EncoderNext]_vars

\* drawWrappedText alone, on every text and budget within the bounds.
WrapInit ==
    /\ AppInit(<<>>)
    /\ \E t \in Texts, b \in Budgets : calc = WrapStart(t, b)

WrapNext ==
    \/ WrapStep
    \/ WrapFinish

WrapSpec == WrapInit /\ [][WrapNext]_vars

\* The loop is not interrupted: it has no await.
WrapFairSpec == WrapSpec /\ WF_vars(WrapNext)

\* The subtitle step from its text configuration on, on every text and
\* budget within the bounds and every export surface height.
SubtitleInit ==
    /\ AppInit(<<>>)
    /\ \E t \in Texts, b \in Budgets, h \in Heights :
          calc = SubtitleStart(t, b, h)

SubtitleNext ==
    \/ CountStep
    \/ LayOut
    \/ WrapStep
    \/ WrapFinish

SubtitleSpec == SubtitleInit /\ [][SubtitleNext]_vars

\* The cover fit alone, on every image size within the bounds and every
\* export surface.
CoverInit ==
    /\ AppInit(<<>>)
    /\ \E img \in ImageSizes, r \in AspectRatios :
          calc = [op |-> "cover", img |-> img, surface |-> CanvasSize(r),
                  rect |-> <<>>]

CoverNext == CoverFit

CoverSpec == CoverInit /\ [][CoverNext]_vars

\* The application from its first page on: analyses, plans and their
\* shot queues, the header's back and reset, and the preview opened on
\* whatever shots there are.
AppStart ==
    /\ AppAt("IDLE", <<>>)
    /\ calc = [op |-> "none"]

AppNext ==
    \/ HandleAnalyze
    \/ Confirm
    \/ \E s \in InitialShots : PlanResolved(s)
    \/ PlanFailed
    \/ \E q \in 1..MaxPlans, ok \in BOOLEAN : QueueResume(q, ok)
    \/ HandleBack
    \/ HandleGlobalReset
    \/ OpenPreview
    \/ HandleNext

AppSpec == AppStart /\ [][AppNext]_vars

\* ---------------------------------------------------------------- claims
IsPrefix(a, b) == Len(a) <= Len(b) /\ \A k \in 1..Len(a) : a[k] = b[k]

\* composite 0, hold 0, ..., composite n-1, hold n-1, stop.
Canonical(n) ==
    [j \in 1..(2 * n + 1) |->
        IF j = 2 * n + 1 THEN [ev |-> "stop", shot |-> 0]
        ELSE IF j % 2 = 1 THEN [ev |-> "composite", shot |-> (j - 1) \div 2]
        ELSE [ev |-> "hold", shot |-> (j \div 2) - 1]]

Aborted(k) == runs[k] \in {"abortedSetup", "abortedLoop"}
Recording == {r \in 1..Len(recorders) : recorders[r].state = "recording"}
Started == runs # <<>>

\* C1: a run over N shots composites and holds shots 0..N-1 in order, one
\* after the other (the next composite only after the previous hold has
\* completed), and a run that does not abort ends with exactly one stop()
\* after the N-th hold.
C1_ExportCycles ==
    Started =>
        /\ IsPrefix(log, Canonical(Len(startShots)))
        /\ Last(runs) \in {"stopped", "finalized"}
              => log = Canonical(Len(startShots))

C1_Witness ==
    /\ Started
    /\ Last(runs) = "finalized"
    /\ Len(startShots) >= 2
    /\ log = Canonical(Len(startShots))

\* C2: once the pipeline is back in Idle after an exception in the loop,
\* no encoder session is left in the recording state.
C2_NoDanglingRecorder ==
    (Started /\ ~isExporting) => Recording = {}

\* C3: an aborted run saves no artifact, shows one message and leaves
\* isExporting false; a run aborted during setup has no encoder session
\* at all, and no aborted run's session has received a chunk.
C3_AbortNoArtifact ==
    /\ \A k \in 1..Len(runs) : Aborted(k) =>
          /\ \A d \in 1..Len(downloads) : downloads[d].run # k
          /\ k = Len(runs) => ~isExporting
          /\ \A r \in 1..Len(recorders) : recorders[r].run = k =>
                /\ runs[k] # "abortedSetup"
                /\ recorders[r].chunks = <<>>
    /\ alerts = Cardinality({k \in 1..Len(runs) : Aborted(k)})

C3_Witness ==
    /\ \E k \in 1..Len(runs) : runs[k] = "abortedSetup"
    /\ \E k \in 1..Len(runs) : runs[k] = "abortedLoop"
    /\ ~isExporting

\* C4: a failed image load gives the placeholder frame and never aborts
\* the run: only a shot whose subtitles cannot be drawn does, and a run
\* that reaches stop() has composited all N shots.
C4_ImageFailureNonFatal ==
    /\ \A k \in 1..Len(frames) : ~loads[k] =>
          frames[k].kind = "placeholder" /\ frames[k].src = "local"
    /\ Started =>
          /\ Last(runs) = "abortedLoop"
                => startShots[Len(frames)].dialogue = "bad"
          /\ Last(runs) \in {"stopped", "finalized"}
                => Len(frames) = Len(startShots)

C4_Witness ==
    /\ Started
    /\ Last(runs) = "finalized"
    /\ \E k \in 1..Len(frames) : ~loads[k]
    /\ \E k \in 1..Len(frames) : loads[k]
    /\ Len(frames) = Len(startShots)

\* C5: the frame of a shot without an image reference is the local
\* placeholder, whatever the network answers.
C5_AbsentImagePlaceholder ==
    \A k \in 1..Len(frames) : startShots[k].imageUrl = "none" =>
        frames[k].kind = "placeholder" /\ frames[k].src = "local"

\* C6: what a run composites is decided by the shots and the ratio as they
\* were when the run was requested: frame k is the frame of shot k of that
\* snapshot, there are never more frames than the snapshot has shots, and
\* the canvas has the size of the ratio at the start.
FrameOfShot(f, shot, loaded) ==
    /\ f.kind = IF loaded THEN "cover" ELSE "placeholder"
    /\ f.src = IF ~loaded THEN "local"
               ELSE IF shot.imageUrl # "none" THEN shot.imageUrl
               ELSE "placehold.co"
    /\ f.strap = (shot.dialogue # "none")
    /\ f.text = (shot.dialogue = "text")

C6_Snapshot ==
    Started =>
        /\ Len(frames) <= Len(startShots)
        /\ \A k \in 1..Len(frames) : FrameOfShot(frames[k], startShots[k], loads[k])
        /\ canvas = CanvasSize(startRatio)
        /\ Last(runs) \in {"stopped", "finalized"}
              => Len(frames) = Len(startShots)

C6_Witness ==
    /\ Started
    /\ Last(runs) = "finalized"
    /\ \E k \in 1..Len(frames) :
          /\ shots[k].imageUrl = "url"
          /\ startShots[k].imageUrl = "none"
          /\ frames[k].src = "placehold.co"

\* C7: while isExporting is set, playback is paused and no interval is
\* registered, and no step (a control the user works, a timer) changes
\* currentIndex, progress or isPlaying.
C7_PlaybackFrozen ==
    [][/\ isExporting' => (~isPlaying' /\ ~intervalRef')
       /\ (isExporting /\ isExporting')
             => UNCHANGED <<currentIndex, progress, isPlaying>>]_vars

C7_Witness ==
    /\ isExporting
    /\ pc = "awaitHold"
    /\ currentIndex > 0
    /\ progress > 0
    /\ now - startTimeRef >= DURATION_PER_SHOT

\* C8: at most one encoder session is recording at any time, and every
\* export run that gets as far as constructing a session has exactly one.
C8_OneRecorder ==
    /\ Cardinality(Recording) <= 1
    /\ \A k \in 1..Len(runs) :
          Cardinality({r \in 1..Len(recorders) : recorders[r].run = k})
              = IF runs[k] = "abortedSetup" THEN 0 ELSE 1

\* C9: every export run returns to Idle; a run that did not abort returns
\* there by the step that saves its artifact, with exportProgress 0.
C9_ReturnsToIdle ==
    /\ isExporting ~> ~isExporting
    /\ [][(isExporting /\ ~isExporting' /\ runs'[Len(runs')] # "abortedLoop")
            => /\ runs'[Len(runs')] = "finalized"
               /\ Len(downloads') = Len(downloads) + 1
               /\ downloads'[Len(downloads')].run = Len(runs)
               /\ exportProgress' = 0]_vars

C9_Witness ==
    /\ Started
    /\ Last(runs) = "finalized"
    /\ ~isExporting
    /\ exportProgress = 0
    /\ Len(frames) >= 1
    /\ \E d \in 1..Len(downloads) : downloads[d].run = Len(runs)

\* C10: with an empty shot sequence nothing throws: the preview opens and
\* an export over it stops its encoder without a composite and returns to
\* Idle.
C10_EmptyExport ==
    Len(shots) = 0 =>
        /\ step # "CRASHED"
        /\ (Started /\ ~Aborted(Len(runs))) => log = <<[ev |-> "stop", shot |-> 0]>>

\* Math.round(a / b) = p, for b > 0: p is the integer nearest to a / b, the
\* upper one of two.
IsRounded(p, a, b) == 2 * a - b < 2 * p * b /\ 2 * p * b <= 2 * a + b
InLoop == Started /\ Last(runs) = "running"

\* C11: while an export run is in its loop the reported percentage is
\* round(100 * i / N) for the shot i the loop is at; it changes only when
\* the loop moves to another shot, and it never decreases during the run.
C11_ProgressPerShot ==
    [][InLoop' =>
         /\ IsRounded(exportProgress', 100 * i', Len(startShots'))
         /\ (InLoop => exportProgress' >= exportProgress)
         /\ (InLoop /\ i' = i => exportProgress' = exportProgress)]_vars

C11_Witness ==
    /\ InLoop
    /\ i >= 1
    /\ exportProgress > 0
    /\ exportProgress < 100

NonEmpty(b) == b.size > 0

\* C12: a session's buffer, and the artifact saved from it, is the
\* sequence of the non-empty blobs that session's recorder emitted, in the
\* order of emission: none left out, none twice, none of another session.
C12_ArtifactIsChunks ==
    /\ \A r \in 1..Len(recorders) :
          recorders[r].chunks = SelectSeq(recorders[r].emitted, NonEmpty)
    /\ \A d \in 1..Len(downloads) :
          \E r \in 1..Len(recorders) :
             /\ recorders[r].run = downloads[d].run
             /\ downloads[d].blob = SelectSeq(recorders[r].emitted, NonEmpty)
             /\ \A k \in 1..Len(downloads[d].blob) : downloads[d].blob[k].rid = r

C12_Witness ==
    \E d \in 1..Len(downloads) :
       \E r \in 1..Len(recorders) :
          /\ recorders[r].run = downloads[d].run
          /\ Len(downloads[d].blob) >= 2
          /\ Len(recorders[r].emitted) > Len(downloads[d].blob)

\* The lines joined back into one string.
RECURSIVE Flatten(_)
Flatten(ls) == IF ls = <<>> THEN <<>> ELSE Head(ls) \o Flatten(Tail(ls))

\* C13: the lines drawWrappedText emits, joined in order, are the input
\* text: no code unit is dropped, doubled or moved.  During the loop the
\* emitted lines and the open line are the units consumed so far.
C13_WrapKeepsText ==
    /\ calc.done => Flatten(calc.lines) = calc.text
    /\ ~calc.done =>
          Flatten(calc.lines) \o calc.line = SubSeq(calc.text, 1, calc.n)

C13_Witness ==
    /\ calc.done
    /\ Len(calc.lines) >= 3
    /\ \E k \in 1..Len(calc.lines) : Len(calc.lines[k]) >= 2

C15_NoSplitCharacter ==
    calc.done =>
        \A k \in 1..(Len(calc.lines) - 1) :
           ~(Last(calc.lines[k]) = "H" /\ Head(calc.lines[k + 1]) = "L")

\* C16: drawWrappedText ends on every text and budget; it emits at least
\* one line and at most one per code unit, and exactly one code unit per
\* line when each unit of the text alone is wider than the budget.
C16_WrapTerminates ==
    /\ <>calc.done
    /\ [](calc.done =>
            /\ Len(calc.lines) >= 1
            /\ Len(calc.lines) <= Len(calc.text)
            /\ (\A k \in 1..Len(calc.text) :
                    MeasureText(<<calc.text[k]>>) > calc.maxWidth)
                 => \A k \in 1..Len(calc.lines) : Len(calc.lines[k]) = 1)

C16_Witness ==
    /\ calc.done
    /\ calc.maxWidth <= 0
    /\ Len(calc.text) = MaxLen
    /\ Len(calc.lines) = MaxLen

\* C17: the break is greedy: the first code unit of a line did not fit on
\* the line before it (the two together measure more than the budget).
C17_GreedyBreaks ==
    calc.done =>
        \A k \in 1..(Len(calc.lines) - 1) :
           MeasureText(Append(calc.lines[k], Head(calc.lines[k + 1])))
               > calc.maxWidth

C17_Witness ==
    /\ calc.done
    /\ Len(calc.lines) >= 2
    /\ \E k \in 1..(Len(calc.lines) - 1) :
          /\ MeasureText(calc.lines[k]) = calc.maxWidth
          /\ Len(calc.lines[k]) >= 2

\* C18: the drawn rectangle has the image's aspect ratio and covers the
\* whole surface; a relatively wider image keeps the surface's height and
\* overflows left and right by the same amount, any other keeps the
\* surface's width and overflows above and below by the same amount.
C18_CoverFit ==
    calc.rect # <<>> =>
        LET r == calc.rect[1]
            img == calc.img
            W == calc.surface.width * r.den
            H == calc.surface.height * r.den
        IN /\ r.w * img.height = r.h * img.width
           /\ r.x <= 0 /\ r.y <= 0
           /\ r.x + r.w >= W /\ r.y + r.h >= H
           /\ IF img.width * calc.surface.height > calc.surface.width * img.height
              THEN r.h = H /\ r.y = 0 /\ 0 - r.x = r.x + r.w - W
              ELSE r.w = W /\ r.x = 0 /\ 0 - r.y = r.y + r.h - H

C18_Witness ==
    /\ calc.rect # <<>>
    /\ calc.rect[1].x < 0
    /\ calc.rect[1].h = calc.surface.height * calc.rect[1].den
    /\ calc.surface.height > calc.surface.width

\* C19: a shot without dialogue gets no subtitle strap and no subtitle
\* text: its frame is the background with the image or the placeholder.
C19_NoDialogueNoSubtitle ==
    \A k \in 1..Len(frames) :
       startShots[k].dialogue = "none" =>
           /\ ~frames[k].strap
           /\ ~frames[k].text
           /\ frames[k].caption = <<>>

C19_Witness ==
    /\ Len(frames) = 2
    /\ startShots[1].dialogue = "text"
    /\ frames[1].strap /\ frames[1].text
    /\ startShots[2].dialogue = "none"
    /\ ~frames[2].strap

\* C20: a shot's frame is a function of the surface, the shot and the
\* outcome of its image load only: it is the frame the same shot gets on a
\* fresh context, whatever shots were composited before it.
C20_FrameOfShotAlone ==
    \A k \in 1..Len(frames) :
       frames[k] = Composite(FreshCtx, startShots[k], loads[k]).frame

\* The hold has run out for the shown shot, counted from `active`.
HoldOver == now - active >= DURATION_PER_SHOT
\* The share of the hold that has run, in percent.
HoldShare == ((now - active) * 100) \div DURATION_PER_SHOT
LastShot == currentIndex = Len(shots) - 1

\* C21: while playing and not exporting with shots remaining, a tick moves
\* to the next shot with progress 0 exactly when the time since the shot
\* became active has reached the hold duration; any earlier tick leaves
\* the shot and sets progress to 100 * elapsed / hold.
C21_AdvanceAtHold ==
    [][(Tick /\ isPlaying /\ ~isExporting /\ ~LastShot) =>
          IF HoldOver
          THEN /\ currentIndex' = currentIndex + 1
               /\ progress' = 0
               /\ startTimeRef' = now
          ELSE /\ currentIndex' = currentIndex
               /\ progress' = HoldShare
               /\ startTimeRef' = startTimeRef]_vars

C21_Witness ==
    /\ step = "VIDEO_PREVIEW"
    /\ isPlaying
    /\ currentIndex = 1
    /\ progress = 0
    /\ active = now
    /\ now = DURATION_PER_SHOT

EndState == LastShot /\ progress = 100 /\ ~isPlaying /\ ~intervalRef

\* C22: a tick on the last shot after the hold has run out stops the
\* interval, clears isPlaying and sets progress to 100 with the index
\* unchanged; that state is left only by a play toggle or a jump.
C22_EndOfTimeline ==
    /\ [][(Tick /\ LastShot /\ HoldOver) =>
             EndState' /\ currentIndex' = currentIndex]_vars
    /\ [][(step = "VIDEO_PREVIEW" /\ EndState /\ ~EndState') =>
             \/ TogglePlay
             \/ HandlePrev
             \/ \E k \in 0..(MaxShots - 1) : HandleJump(k)]_vars

C22_Witness ==
    /\ step = "VIDEO_PREVIEW"
    /\ EndState
    /\ Len(shots) = 2
    /\ now > active + DURATION_PER_SHOT

\* C23: whenever VideoEditor renders a non-empty storyboard (the render
\* that throws included) the index is within the shots, and progress is in
\* 0..99, or 100 on the last shot with playback stopped.
C23_IndexAndProgress ==
    (step \in {"VIDEO_PREVIEW", "CRASHED"} /\ Len(shots) > 0) =>
        /\ currentIndex \in 0..(Len(shots) - 1)
        /\ \/ progress \in 0..99
           \/ progress = 100 /\ LastShot /\ ~isPlaying

Jumped(k) ==
    /\ currentIndex' = k
    /\ progress' = 0
    /\ startTimeRef' = now
    /\ isPlaying' = isPlaying

\* C24: with no export running, a jump to k (by thumbnail, next or prev)
\* sets the index to k, progress to 0 and the start timestamp to now and
\* keeps the play flag; every tick measures from the moment of the last
\* jump (or later activation).
C24_Jump ==
    /\ [][\A k \in 0..(MaxShots - 1) :
             (HandleJump(k) /\ ~isExporting) => Jumped(k)]_vars
    /\ [][(HandleNext /\ ~isExporting /\ ~LastShot) => Jumped(currentIndex + 1)]_vars
    /\ [][(HandlePrev /\ ~isExporting /\ currentIndex > 0) => Jumped(currentIndex - 1)]_vars
    /\ [][Tick => Elapsed = now - active]_vars

C24_Witness ==
    /\ step = "VIDEO_PREVIEW"
    /\ isPlaying
    /\ currentIndex = 0
    /\ active > 0
    /\ progress > 0
    /\ now < DURATION_PER_SHOT + active

\* C25: pausing clears the interval and keeps progress and index; resuming
\* (anywhere but at the end of the timeline) keeps them too and sets the
\* start timestamp to now less the share of the hold already played, so a
\* tick reports the preserved progress plus the time played since.
C25_PauseResume ==
    /\ [][(TogglePlay /\ isPlaying /\ ~isExporting) =>
             /\ ~isPlaying' /\ ~intervalRef'
             /\ progress' = progress
             /\ currentIndex' = currentIndex]_vars
    /\ [][(TogglePlay /\ ~isPlaying /\ ~isExporting /\ ~EndState) =>
             /\ isPlaying' /\ intervalRef'
             /\ progress' = progress
             /\ currentIndex' = currentIndex
             /\ startTimeRef' = now - (progress * DURATION_PER_SHOT) \div 100]_vars
    /\ [][(Tick /\ ~HoldOver) => progress' = HoldShare]_vars

C25_Witness ==
    /\ step = "VIDEO_PREVIEW"
    /\ isPlaying
    /\ progress = 75
    /\ currentIndex = 0
    /\ now >= 2 * DURATION_PER_SHOT

\* C26: a play toggle while paused starts playback; at the end of the
\* timeline it starts from index 0 and progress 0, anywhere else from the
\* index and progress it was paused at.
C26_Restart ==
    [][(TogglePlay /\ ~isPlaying /\ ~isExporting) =>
          /\ isPlaying'
          /\ IF LastShot /\ progress = 100
             THEN currentIndex' = 0 /\ progress' = 0
             ELSE currentIndex' = currentIndex /\ progress' = progress]_vars

C26_Witness ==
    /\ step = "VIDEO_PREVIEW"
    /\ Len(shots) = 2
    /\ isPlaying
    /\ currentIndex = 0
    /\ progress = 0
    /\ active = now
    /\ now >= 2 * DURATION_PER_SHOT

\* C29: no step of an export run changes currentIndex, progress or the
\* shots, and a step that brings the pipeline back to Idle leaves
\* isPlaying false.
C29_ExportLeavesPlayback ==
    /\ [][ExportActions =>
             /\ currentIndex' = currentIndex
             /\ progress' = progress
             /\ shots' = shots]_vars
    /\ [][(ExportActions /\ ~isExporting'
               /\ (isExporting \/ Len(runs') > Len(runs))) => ~isPlaying']_vars

C29_Witness ==
    /\ Started
    /\ Last(runs) = "finalized"
    /\ ~isExporting
    /\ ~isPlaying
    /\ currentIndex = 1
    /\ progress \in 1..99

C27_BlockBottom ==
    calc.op = "wrap" =>
        /\ calc.startY + calc.lineCount * calc.lineHeight
               = 100 * calc.height - 8 * calc.height
        /\ 100 * calc.lineHeight = 135 * 100 * calc.fontSize
        /\ 100 * calc.fontSize <= 4 * calc.height
        /\ 4 * calc.height < 100 * (calc.fontSize + 1)

C27_Witness ==
    /\ calc.op = "wrap"
    /\ calc.lineCount >= 2
    /\ calc.height = 1920
    /\ calc.fontSize = 76

\* C28: the line count the export loop computes to place the block is the
\* number of lines drawWrappedText then draws.
C28_CountMatchesLines ==
    (calc.op = "wrap" /\ calc.done) => calc.lineCount = Len(calc.lines)

C28_Witness ==
    /\ calc.op = "wrap"
    /\ calc.done
    /\ calc.lineCount >= 3
    /\ calc.maxWidth >= 2
    /\ Len(calc.lines) >= 3

====
